---- MODULE Spec2Model ----
(***************************************************************************)
(* Model of the wasm host-function runtime, ethcore/src/evm/wasm/runtime.rs *)
(* (struct Runtime and its UserFunctionExecutor implementation).            *)
(*                                                                          *)
(* Machine integers keep their width.  TLC's integers are 32 bits wide, so  *)
(* a u32 is held as two 16-bit limbs <<lo, hi>> and a u64 as four limbs,    *)
(* least significant first; additions carry limb by limb and wrap at the    *)
(* width of the type.                                                       *)
(***************************************************************************)
EXTENDS Integers, Sequences, FiniteSets, TLC

(***************************************************************************)
(* Bounds of the model.                                                     *)
(***************************************************************************)
\* number of calls made on one Runtime instance, all operations allowed
MaxCalls == 2
\* number of calls when only the gas operations are called
MaxGasCalls == 4
\* number of calls when only the allocator operations are called
MaxAllocCalls == 3
\* size in bytes of the linear memory block
MemSize == 128

(***************************************************************************)
(* Fixed-width unsigned integers as limb sequences.                         *)
(***************************************************************************)
Base == 2 ^ 16
TopLimb == Base - 1
HalfBase == 2 ^ 15

\* the u32 with value lo + hi * 2^16
U32(lo, hi) == <<lo, hi>>
\* a small natural (< 2^16) as u32 and as u64
SmallU32(n) == <<n, 0>>
SmallU64(n) == <<n, 0, 0, 0>>

RECURSIVE AddFrom(_, _, _, _)
\* limbs i.. of a + b with carry c in, followed by the carry out
AddFrom(a, b, i, c) ==
    IF i > Len(a) THEN <<c>>
    ELSE LET s == a[i] + b[i] + c
         IN  <<s % Base>> \o AddFrom(a, b, i + 1, s \div Base)

\* a + b modulo 2^width
WrappingAdd(a, b) == SubSeq(AddFrom(a, b, 1, 0), 1, Len(a))
\* a + b does not fit the width
AddOverflows(a, b) == AddFrom(a, b, 1, 0)[Len(a) + 1] = 1

RECURSIVE LessFrom(_, _, _)
\* a < b, comparing limbs i, i-1, .. 1
LessFrom(a, b, i) ==
    IF i = 0 THEN FALSE
    ELSE IF a[i] # b[i] THEN a[i] < b[i]
    ELSE LessFrom(a, b, i - 1)

Less(a, b) == LessFrom(a, b, Len(a))
LessEq(a, b) == ~Less(b, a)

RECURSIVE SubFrom(_, _, _, _)
\* limbs i.. of a - b with borrow c in (a >= b is the caller's obligation)
SubFrom(a, b, i, c) ==
    IF i > Len(a) THEN <<>>
    ELSE LET d == a[i] - b[i] - c
         IN  <<(d + Base) % Base>> \o SubFrom(a, b, i + 1, IF d < 0 THEN 1 ELSE 0)

Sub(a, b) == SubFrom(a, b, 1, 0)

\* an i32 is held by its 32-bit two's complement pattern
IsNegativeI32(x) == x[2] >= HalfBase
\* `x as u32` of an i32: the same bits
I32AsU32(x) == x
\* `x as u64` of an i32: sign extension to 64 bits
I32AsU64(x) ==
    IF IsNegativeI32(x) THEN <<x[1], x[2], TopLimb, TopLimb>>
    ELSE <<x[1], x[2], 0, 0>>
\* `x as u64` of a u32: zero extension
U32AsU64(x) == <<x[1], x[2], 0, 0>>

(***************************************************************************)
(* Interpreter values and the operand stack of a CallerContext.  The top of *)
(* the stack is the last element of the sequence.                           *)
(***************************************************************************)
I32Value(x) == [ty |-> "i32", bits |-> x]
I64Value(x) == [ty |-> "i64", bits |-> x]

\* results: Ok(None) carries the empty sequence, Ok(Some(v)) the limbs of v
Ok(v) == [kind |-> "Ok", val |-> v, err |-> ""]
Err(e) == [kind |-> "Err", val |-> <<>>, err |-> e]
\* an arithmetic overflow caught by a build with overflow checks
Panic == [kind |-> "Panic", val |-> <<>>, err |-> "attempt to add with overflow"]
NoValue == <<>>

TrapStorageUpdate == "Trap: Storage update error"
TrapStorageRead == "Trap: Storage read error"
TrapSuicide == "Trap: Suicide error"
TrapGasExceeds == "Trap: Gas exceeds limits"
TrapAccessViolation == "Trap: Memory access violation"
TrapUnknown == "Trap: unknown trap"
TrapUtf8 == "Trap: Debug log utf-8 decoding error"
ErrStack == "Stack: non-empty stack expected"
ErrValue == "Value: unexpected type"
ErrMemory == "Memory: region out of bounds"
ErrInvalidGasState == "InvalidGasState"
\* impl From<interpreter::Error> for Error
FromInterpreterError(e) == "Interpreter(" \o e \o ")"

\* context.value_stack.pop_as::<i32>()
pop_as_i32(stack) ==
    IF stack = <<>> THEN [ok |-> FALSE, err |-> ErrStack, val |-> <<>>, rest |-> stack]
    ELSE LET top == stack[Len(stack)]
             rest == SubSeq(stack, 1, Len(stack) - 1)
         IN  IF top.ty = "i32"
             THEN [ok |-> TRUE, err |-> "", val |-> top.bits, rest |-> rest]
             ELSE [ok |-> FALSE, err |-> ErrValue, val |-> <<>>, rest |-> rest]

(***************************************************************************)
(* Linear memory: MemSize bytes, reads and writes checked against the size. *)
(***************************************************************************)
Bytes == 0 .. 255
Addresses == 0 .. (MemSize - 1)

\* the region [offset, offset + len) lies inside the memory
RegionInBounds(offset, len) ==
    /\ offset[2] = 0
    /\ len[2] = 0
    /\ offset[1] + len[1] <= MemSize

\* MemoryInstance::get(offset, size)
MemGet(mem, offset, len) ==
    IF RegionInBounds(offset, len)
    THEN [ok |-> TRUE, bytes |-> [i \in 1 .. len[1] |-> mem[offset[1] + i - 1]]]
    ELSE [ok |-> FALSE, bytes |-> <<>>]

\* MemoryInstance::set(offset, value)
MemSet(mem, offset, value) ==
    IF RegionInBounds(offset, SmallU32(Len(value)))
    THEN [ok |-> TRUE,
          mem |-> [a \in Addresses |->
                     IF a >= offset[1] /\ a < offset[1] + Len(value)
                     THEN value[a - offset[1] + 1] ELSE mem[a]]]
    ELSE [ok |-> FALSE, mem |-> mem]

(***************************************************************************)
(* WasmPtr (super::ptr).                                                    *)
(***************************************************************************)
\* WasmPtr::from_i32: a raw pointer that is negative as an i32 is refused
WasmPtr_from_i32(raw) ==
    IF IsNegativeI32(raw) THEN [ok |-> FALSE, ptr |-> raw]
    ELSE [ok |-> TRUE, ptr |-> I32AsU32(raw)]

\* WasmPtr::slice(len, memory)
WasmPtr_slice(ptr, len, mem) == MemGet(mem, ptr, SmallU32(len))

(***************************************************************************)
(* The external state interface (evm::Ext) as an in-memory map: storage is  *)
(* a set of key/value entries with at most one entry per key, an absent key *)
(* reads as the zero word; suicides lists the self-destruct calls made.     *)
(***************************************************************************)
H256Len == 32
AddressLen == 20
ZeroH256 == [i \in 1 .. H256Len |-> 0]

ExtInit == [storage |-> {}, suicides |-> <<>>]

Ext_storage_at(ext, key) ==
    IF \E e \in ext.storage : e.key = key
    THEN (CHOOSE e \in ext.storage : e.key = key).val
    ELSE ZeroH256

Ext_set_storage(ext, key, val) ==
    [ext EXCEPT !.storage =
        {e \in @ : e.key # key} \cup {[key |-> key, val |-> val]}]

Ext_suicide(ext, refund_address) ==
    [ext EXCEPT !.suicides = Append(@, refund_address)]

(***************************************************************************)
(* State.  The five fields of struct Runtime, the build profile, and what   *)
(* the caller of the Runtime has observed.                                  *)
(***************************************************************************)
VARIABLES
    gas_counter,      \* u64
    gas_limit,        \* u64
    dynamic_top,      \* u32
    memory,           \* the shared MemoryInstance
    ext,              \* the external state interface behind &mut evm::Ext
    overflow_checks,  \* TRUE: the build panics on integer overflow; FALSE: it wraps
    stack_space,      \* the stack_space given to with_params
    last,             \* the last call made on the Runtime and its outcome
    calls,            \* number of calls made so far
    max_calls,        \* number of calls the caller makes on this Runtime
    panicked,         \* a call has panicked: the invocation is being unwound
    gas_requested,    \* sum of the amounts of the gas calls so far, as u64
    gas_all_ok,       \* every gas call so far returned Ok(None)
    allocs            \* the allocations handed out so far: <<[ptr, amount], ..>>

vars == <<gas_counter, gas_limit, dynamic_top, memory, ext, overflow_checks,
          stack_space, last, calls, max_calls, panicked, gas_requested, gas_all_ok, allocs>>

\* the Runtime as a value, for the methods below (&mut self)
Self ==
    [gas_counter |-> gas_counter, gas_limit |-> gas_limit,
     dynamic_top |-> dynamic_top, memory |-> memory, ext |-> ext]

\* what a method hands back: the Runtime after it, and its result
Outcome(self, res) == [self |-> self, res |-> res]

\* `a + b` on machine integers: a panic in a build with overflow checks,
\* wrapping otherwise
AddPanics(a, b) == overflow_checks /\ AddOverflows(a, b)

(***************************************************************************)
(* Pointer helpers of the Runtime.                                          *)
(***************************************************************************)
\* Runtime::h256_at
h256_at(self, ptr) ==
    LET s == WasmPtr_slice(ptr, H256Len, self.memory)
    IN  IF s.ok THEN [ok |-> TRUE, err |-> "", val |-> s.bytes]
        ELSE [ok |-> FALSE, err |-> TrapAccessViolation, val |-> <<>>]

\* Runtime::pop_h256
pop_h256(self, stack) ==
    LET p == pop_as_i32(stack)
    IN  IF ~p.ok THEN [ok |-> FALSE, err |-> p.err, val |-> <<>>, rest |-> p.rest]
        ELSE LET w == WasmPtr_from_i32(p.val)
             IN  IF ~w.ok
                 THEN [ok |-> FALSE, err |-> TrapAccessViolation, val |-> <<>>,
                       rest |-> p.rest]
                 ELSE LET h == h256_at(self, w.ptr)
                      IN  [ok |-> h.ok, err |-> h.err, val |-> h.val, rest |-> p.rest]

\* Runtime::address_at
address_at(self, ptr) ==
    LET s == WasmPtr_slice(ptr, AddressLen, self.memory)
    IN  IF s.ok THEN [ok |-> TRUE, err |-> "", val |-> s.bytes]
        ELSE [ok |-> FALSE, err |-> TrapAccessViolation, val |-> <<>>]

\* Runtime::pop_address
pop_address(self, stack) ==
    LET p == pop_as_i32(stack)
    IN  IF ~p.ok THEN [ok |-> FALSE, err |-> p.err, val |-> <<>>, rest |-> p.rest]
        ELSE LET w == WasmPtr_from_i32(p.val)
             IN  IF ~w.ok
                 THEN [ok |-> FALSE, err |-> TrapAccessViolation, val |-> <<>>,
                       rest |-> p.rest]
                 ELSE LET h == address_at(self, w.ptr)
                      IN  [ok |-> h.ok, err |-> h.err, val |-> h.val, rest |-> p.rest]

(***************************************************************************)
(* Host functions.  ext_fails is the answer of the external state interface *)
(* to the call the host function makes on it, if it makes one.              *)
(***************************************************************************)
\* faulty variant of storage_write: the key is popped before the value
storage_write_key_first(self, stack, ext_fails) ==
    LET key == pop_h256(self, stack)
    IN  IF ~key.ok THEN Outcome(self, Err(key.err))
        ELSE LET val == pop_h256(self, key.rest)
             IN  IF ~val.ok THEN Outcome(self, Err(val.err))
                 ELSE IF ext_fails THEN Outcome(self, Err(TrapStorageUpdate))
                 ELSE Outcome([self EXCEPT !.ext = Ext_set_storage(@, key.val, val.val)],
                              Ok(SmallU32(0)))

\* Runtime::storage_write
storage_write(self, stack, ext_fails) ==
    LET val == pop_h256(self, stack)
    IN  IF ~val.ok THEN Outcome(self, Err(val.err))
        ELSE LET key == pop_h256(self, val.rest)
             IN  IF ~key.ok THEN Outcome(self, Err(key.err))
                 ELSE IF ext_fails THEN Outcome(self, Err(TrapStorageUpdate))
                 ELSE Outcome([self EXCEPT !.ext = Ext_set_storage(@, key.val, val.val)],
                              Ok(SmallU32(0)))

\* faulty variant of storage_read: the destination is cleared before the key
\* pointer is validated
storage_read_clear_first(self, stack, ext_fails) ==
    LET val_ptr == pop_as_i32(stack)
    IN  IF ~val_ptr.ok THEN Outcome(self, Err(val_ptr.err))
        ELSE LET c == MemSet(self.memory, I32AsU32(val_ptr.val), ZeroH256)
                 cleared == [self EXCEPT !.memory = c.mem]
                 key == pop_h256(cleared, val_ptr.rest)
             IN  IF ~key.ok THEN Outcome(cleared, Err(key.err))
                 ELSE IF ext_fails THEN Outcome(cleared, Err(TrapStorageRead))
                 ELSE LET val == Ext_storage_at(cleared.ext, key.val)
                          w == MemSet(cleared.memory, I32AsU32(val_ptr.val), val)
                      IN  IF ~w.ok THEN Outcome(cleared, Err(ErrMemory))
                          ELSE Outcome([cleared EXCEPT !.memory = w.mem],
                                       Ok(SmallU32(0)))

\* Runtime::storage_read
storage_read(self, stack, ext_fails) ==
    LET val_ptr == pop_as_i32(stack)
    IN  IF ~val_ptr.ok THEN Outcome(self, Err(val_ptr.err))
        ELSE LET key == pop_h256(self, val_ptr.rest)
             IN  IF ~key.ok THEN Outcome(self, Err(key.err))
                 ELSE IF ext_fails THEN Outcome(self, Err(TrapStorageRead))
                 ELSE LET val == Ext_storage_at(self.ext, key.val)
                          w == MemSet(self.memory, I32AsU32(val_ptr.val), val)
                      IN  IF ~w.ok THEN Outcome(self, Err(ErrMemory))
                          ELSE Outcome([self EXCEPT !.memory = w.mem], Ok(SmallU32(0)))

\* faulty variant of suicide: the answer of the state interface is ignored
suicide_ignore_failure(self, stack, ext_fails) ==
    LET refund_address == pop_address(self, stack)
    IN  IF ~refund_address.ok THEN Outcome(self, Err(refund_address.err))
        ELSE IF ext_fails THEN Outcome(self, Ok(NoValue))
        ELSE Outcome([self EXCEPT !.ext = Ext_suicide(@, refund_address.val)],
                     Ok(NoValue))

\* Runtime::suicide
suicide(self, stack, ext_fails) ==
    LET refund_address == pop_address(self, stack)
    IN  IF ~refund_address.ok THEN Outcome(self, Err(refund_address.err))
        ELSE IF ext_fails THEN Outcome(self, Err(TrapSuicide))
        ELSE Outcome([self EXCEPT !.ext = Ext_suicide(@, refund_address.val)],
                     Ok(NoValue))

\* faulty variant of malloc: the amount allocated is charged as gas
malloc_charging_gas(self, stack) ==
    LET p == pop_as_i32(stack)
    IN  IF ~p.ok THEN Outcome(self, Err(p.err))
        ELSE LET amount == I32AsU32(p.val)
                 previous_top == self.dynamic_top
             IN  IF AddPanics(previous_top, amount) THEN Outcome(self, Panic)
                 ELSE Outcome([self EXCEPT
                                  !.dynamic_top = WrappingAdd(previous_top, amount),
                                  !.gas_counter = WrappingAdd(@, U32AsU64(amount))],
                              Ok(previous_top))

\* Runtime::malloc
malloc(self, stack) ==
    LET p == pop_as_i32(stack)
    IN  IF ~p.ok THEN Outcome(self, Err(p.err))
        ELSE LET amount == I32AsU32(p.val)
                 previous_top == self.dynamic_top
             IN  IF AddPanics(previous_top, amount) THEN Outcome(self, Panic)
                 ELSE Outcome([self EXCEPT !.dynamic_top = WrappingAdd(previous_top, amount)],
                              Ok(previous_top))

\* Runtime::alloc
alloc(self, amount) ==
    LET previous_top == self.dynamic_top
    IN  IF AddPanics(previous_top, amount) THEN Outcome(self, Panic)
        ELSE Outcome([self EXCEPT !.dynamic_top = WrappingAdd(previous_top, amount)],
                     Ok(previous_top))

\* faulty variant of gas: the charge is applied without comparing it to
\* the limit
gas_without_limit_check(self, stack) ==
    LET prev == self.gas_counter
        p == pop_as_i32(stack)
    IN  IF ~p.ok THEN Outcome(self, Err(p.err))
        ELSE LET update == I32AsU64(p.val)
             IN  IF AddPanics(prev, update) THEN Outcome(self, Panic)
                 ELSE Outcome([self EXCEPT !.gas_counter = WrappingAdd(prev, update)],
                              Ok(NoValue))

\* Runtime::gas
gas(self, stack) ==
    LET prev == self.gas_counter
        p == pop_as_i32(stack)
    IN  IF ~p.ok THEN Outcome(self, Err(p.err))
        ELSE LET update == I32AsU64(p.val)
             IN  IF AddPanics(prev, update) THEN Outcome(self, Panic)
                 ELSE IF Less(self.gas_limit, WrappingAdd(prev, update))
                 THEN Outcome(self, Err(TrapGasExceeds))
                 ELSE Outcome([self EXCEPT !.gas_counter = WrappingAdd(prev, update)],
                              Ok(NoValue))

\* faulty variant of user_trap: an unknown name is accepted and ignored
user_trap_silent(self, stack) == Outcome(self, Ok(NoValue))

\* Runtime::user_trap
user_trap(self, stack) == Outcome(self, Err(TrapUnknown))

\* Runtime::user_noop
user_noop(self, stack) == Outcome(self, Ok(NoValue))

\* Runtime::gas_left
gas_left(self) ==
    IF Less(self.gas_limit, self.gas_counter) THEN Err(ErrInvalidGasState)
    ELSE Ok(Sub(self.gas_limit, self.gas_counter))

(***************************************************************************)
(* String::from_utf8: the byte sequence is well-formed UTF-8 (no overlong   *)
(* forms, no surrogates, nothing above U+10FFFF).                           *)
(***************************************************************************)
IsContinuation(b, i) == i <= Len(b) /\ b[i] \in 128 .. 191
InRange(b, i, lo, hi) == i <= Len(b) /\ b[i] \in lo .. hi

RECURSIVE Utf8From(_, _)
Utf8From(b, i) ==
    IF i > Len(b) THEN TRUE
    ELSE LET x == b[i]
         IN  IF x < 128 THEN Utf8From(b, i + 1)
             ELSE IF x \in 194 .. 223
             THEN IsContinuation(b, i + 1) /\ Utf8From(b, i + 2)
             ELSE IF x \in 224 .. 239
             THEN /\ InRange(b, i + 1, IF x = 224 THEN 160 ELSE 128,
                                       IF x = 237 THEN 159 ELSE 191)
                  /\ IsContinuation(b, i + 2)
                  /\ Utf8From(b, i + 3)
             ELSE IF x \in 240 .. 244
             THEN /\ InRange(b, i + 1, IF x = 240 THEN 144 ELSE 128,
                                       IF x = 244 THEN 143 ELSE 191)
                  /\ IsContinuation(b, i + 2)
                  /\ IsContinuation(b, i + 3)
                  /\ Utf8From(b, i + 4)
             ELSE FALSE

from_utf8_ok(b) == Utf8From(b, 1)

\* faulty variant of debug_log: the pointer is popped before the length
debug_log_pointer_first(self, stack) ==
    LET msg_ptr == pop_as_i32(stack)
    IN  IF ~msg_ptr.ok THEN Outcome(self, Err(msg_ptr.err))
        ELSE LET msg_len == pop_as_i32(msg_ptr.rest)
             IN  IF ~msg_len.ok THEN Outcome(self, Err(msg_len.err))
                 ELSE LET m == MemGet(self.memory, I32AsU32(msg_ptr.val),
                                      I32AsU32(msg_len.val))
                      IN  IF ~m.ok THEN Outcome(self, Err(ErrMemory))
                          ELSE IF ~from_utf8_ok(m.bytes) THEN Outcome(self, Err(TrapUtf8))
                          ELSE Outcome(self, Ok(NoValue))

\* Runtime::debug_log
debug_log(self, stack) ==
    LET msg_len == pop_as_i32(stack)
    IN  IF ~msg_len.ok THEN Outcome(self, Err(msg_len.err))
        ELSE LET msg_ptr == pop_as_i32(msg_len.rest)
             IN  IF ~msg_ptr.ok THEN Outcome(self, Err(msg_ptr.err))
                 ELSE LET m == MemGet(self.memory, I32AsU32(msg_ptr.val),
                                      I32AsU32(msg_len.val))
                      IN  IF ~m.ok THEN Outcome(self, Err(ErrMemory))
                          ELSE IF ~from_utf8_ok(m.bytes) THEN Outcome(self, Err(TrapUtf8))
                          ELSE Outcome(self, Ok(NoValue))

(***************************************************************************)
(* The call marshaller.                                                     *)
(***************************************************************************)
DescriptorLen == 16

\* faulty variant of LittleEndian::write_u32: most significant byte first
BigEndian_write_u32(x) ==
    <<x[2] \div 256, x[2] % 256, x[1] \div 256, x[1] % 256>>

\* LittleEndian::write_u32
LittleEndian_write_u32(x) ==
    <<x[1] % 256, x[1] \div 256, x[2] % 256, x[2] \div 256>>

\* CallArgs::len: the fixed fields (20 + 20 + 20 + 32 bytes) and the input data
CallArgs_len(call_args) == SmallU32(92 + Len(call_args.data))

\* the fields of the args region in the order written, with their offsets
ArgsFields(call_args) ==
    << [off |-> 0, bytes |-> call_args.address],
       [off |-> 20, bytes |-> call_args.sender],
       [off |-> 40, bytes |-> call_args.origin],
       [off |-> 60, bytes |-> call_args.value],
       [off |-> 92, bytes |-> call_args.data] >>

RECURSIVE WriteFields(_, _, _, _)
\* the memory.set calls of fields i.. at args_ptr + off, stopping at the
\* first that fails; the writes made before it stay in memory
WriteFields(mem, args_ptr, fields, i) ==
    IF i > Len(fields) THEN [kind |-> "Ok", mem |-> mem]
    ELSE LET off == SmallU32(fields[i].off)
         IN  IF i > 1 /\ AddPanics(args_ptr, off) THEN [kind |-> "Panic", mem |-> mem]
             ELSE LET at == IF i = 1 THEN args_ptr ELSE WrappingAdd(args_ptr, off)
                      w == MemSet(mem, at, fields[i].bytes)
                  IN  IF ~w.ok THEN [kind |-> "Err", mem |-> mem]
                      ELSE WriteFields(w.mem, args_ptr, fields, i + 1)

\* Runtime::write_descriptor
write_descriptor(self, call_args) ==
    LET d == alloc(self, SmallU32(DescriptorLen))
    IN  IF d.res.kind # "Ok" THEN Outcome(d.self, d.res)
        ELSE
        LET d_ptr == d.res.val
            args_len == CallArgs_len(call_args)
            a == alloc(d.self, args_len)
        IN  IF a.res.kind # "Ok" THEN Outcome(a.self, a.res)
            ELSE
            LET args_ptr == a.res.val
                d_buf == LittleEndian_write_u32(args_ptr)
                         \o LittleEndian_write_u32(args_len)
                         \o [i \in 1 .. 8 |-> 0]
                w == MemSet(a.self.memory, d_ptr, d_buf)
            IN  IF ~w.ok THEN Outcome(a.self, Err(FromInterpreterError(ErrMemory)))
                ELSE
                LET f == WriteFields(w.mem, args_ptr, ArgsFields(call_args), 1)
                    after == [a.self EXCEPT !.memory = f.mem]
                IN  IF f.kind = "Panic" THEN Outcome(after, Panic)
                    ELSE IF f.kind = "Err"
                    THEN Outcome(after, Err(FromInterpreterError(ErrMemory)))
                    ELSE Outcome(after, Ok(d_ptr))

(***************************************************************************)
(* impl UserFunctionExecutor for Runtime: dispatch by name.                 *)
(***************************************************************************)
KnownNames ==
    {"_malloc", "_free", "_storage_read", "_storage_write", "_suicide", "_debug", "gas"}

execute(self, name, stack, ext_fails) ==
    CASE name = "_malloc" -> malloc(self, stack)
      [] name = "_free" -> user_noop(self, stack)
      [] name = "_storage_read" -> storage_read(self, stack, ext_fails)
      [] name = "_storage_write" -> storage_write(self, stack, ext_fails)
      [] name = "_suicide" -> suicide(self, stack, ext_fails)
      [] name = "_debug" -> debug_log(self, stack)
      [] name = "gas" -> gas(self, stack)
      [] OTHER -> user_trap(self, stack)

(***************************************************************************)
(* Inputs.                                                                  *)
(***************************************************************************)
MinusOne == U32(TopLimb, TopLimb)          \* -1 as i32, 0xFFFFFFFF as u32
NearTop == U32(TopLimb - 15, TopLimb)      \* 0xFFFFFFF0, -16 as i32

GasLimits == {SmallU64(2), <<0, 0, 1, 0>>}
StackSpaces == {SmallU32(16)}

\* the memory image the interpreter hands over
InitMemory ==
    [a \in Addresses |->
        IF a = 40 THEN 195
        ELSE IF a = 41 THEN 169
        ELSE IF a < 64 THEN a + 1
        ELSE 0]

\* stacks holding one i32 operand out of ops, an empty stack, a stack whose
\* top has another type, and a deeper stack
OneOperand(ops) ==
    {<<>>, <<I64Value(<<0, 0, 0, 0>>)>>}
    \cup {<<I32Value(x)>> : x \in ops}
    \cup {<<I32Value(SmallU32(3)), I32Value(x)>> : x \in {SmallU32(1)} \cap ops}

\* stacks holding two i32 operands: under \in unders, top \in tops
TwoOperands(unders, tops) ==
    {<<I32Value(u), I32Value(t)>> : u \in unders, t \in tops}

GasOperands == {SmallU32(1), SmallU32(3), MinusOne}
MallocOperands == {SmallU32(16), NearTop}
AllocAmounts == {SmallU32(8), NearTop}
GoodH256Pointers == {SmallU32(0), SmallU32(32)}
EdgeH256Pointers ==
    {SmallU32(MemSize - H256Len), SmallU32(MemSize - H256Len + 1), MinusOne}
AddressPointers ==
    {SmallU32(0), SmallU32(MemSize - AddressLen),
     SmallU32(MemSize - AddressLen + 1), MinusOne}

\* _storage_write and _storage_read: <<key pointer, value or destination pointer>>
StorageStacks ==
    OneOperand({SmallU32(0)})
    \cup TwoOperands(GoodH256Pointers, GoodH256Pointers)
    \cup TwoOperands(EdgeH256Pointers, {SmallU32(0)})
    \cup TwoOperands({SmallU32(0)}, EdgeH256Pointers)

\* the answers of the external state interface tried for a call with this
\* stack: it is made to fail for the calls whose pointers are 0 and 32
ExtAnswers(stack) ==
    IF stack \in {<<I32Value(SmallU32(0))>>,
                  <<I32Value(SmallU32(0)), I32Value(SmallU32(32))>>}
    THEN BOOLEAN ELSE {FALSE}

\* _debug: <<message pointer, message length>>
DebugStacks ==
    {<<>>, <<I32Value(SmallU32(1))>>}
    \cup TwoOperands({SmallU32(0)}, {SmallU32(0), SmallU32(2)})
    \cup TwoOperands({SmallU32(40)}, {SmallU32(1), SmallU32(2)})
    \cup TwoOperands({SmallU32(41)}, {SmallU32(1)})
    \cup TwoOperands({SmallU32(MemSize - 1)}, {SmallU32(1), SmallU32(2)})
    \cup TwoOperands({MinusOne}, {SmallU32(0)})
    \cup TwoOperands({SmallU32(0)}, {MinusOne})

UnknownNames == {"_unknown", "_realloc"}

NoCallArgs ==
    [address |-> <<>>, sender |-> <<>>, origin |-> <<>>, value |-> <<>>, data |-> <<>>]
CallArgsSet ==
    {[address |-> [i \in 1 .. AddressLen |-> 16 + i],
      sender |-> [i \in 1 .. AddressLen |-> 48 + i],
      origin |-> [i \in 1 .. AddressLen |-> 80 + i],
      value |-> [i \in 1 .. H256Len |-> 112 + i],
      data |-> d] : d \in {<<>>, <<222, 173>>}}

(***************************************************************************)
(* Runtime::with_params                                                     *)
(***************************************************************************)
with_params(e, mem, stack, limit) ==
    [gas_counter |-> SmallU64(0), gas_limit |-> limit, dynamic_top |-> stack,
     memory |-> mem, ext |-> e]

NoCall(op) ==
    [op |-> op, name |-> "", stack |-> <<>>, amount |-> <<>>,
     call_args |-> NoCallArgs, res |-> Ok(NoValue)]

\* a fresh Runtime on which the caller is about to make n calls
Fresh(n) ==
    /\ max_calls = n
    /\ overflow_checks \in BOOLEAN
    /\ stack_space \in StackSpaces
    /\ \E limit \in GasLimits :
          LET r == with_params(ExtInit, InitMemory, stack_space, limit)
          IN  /\ gas_counter = r.gas_counter
              /\ gas_limit = r.gas_limit
              /\ dynamic_top = r.dynamic_top
              /\ memory = r.memory
              /\ ext = r.ext
    /\ last = NoCall("with_params")
    /\ calls = 0
    /\ panicked = FALSE
    /\ gas_requested = SmallU64(0)
    /\ gas_all_ok = TRUE
    /\ allocs = <<>>

Init == Fresh(MaxCalls)

(***************************************************************************)
(* Actions: one call on the Runtime each.                                   *)
(***************************************************************************)
\* the Runtime and the caller's record after a call with outcome out
Returns(call, out) ==
    /\ ~panicked
    /\ calls < max_calls
    /\ gas_counter' = out.self.gas_counter
    /\ gas_limit' = out.self.gas_limit
    /\ dynamic_top' = out.self.dynamic_top
    /\ memory' = out.self.memory
    /\ ext' = out.self.ext
    /\ last' = [call EXCEPT !.res = out.res]
    /\ panicked' = (out.res.kind = "Panic")
    /\ calls' = calls + 1
    /\ UNCHANGED <<overflow_checks, stack_space, max_calls>>

HostCall(name, stack) == [NoCall("execute") EXCEPT !.name = name, !.stack = stack]

ExecMalloc ==
    \E stack \in OneOperand(MallocOperands) :
       LET out == execute(Self, "_malloc", stack, FALSE)
       IN  /\ Returns(HostCall("_malloc", stack), out)
           /\ allocs' = IF out.res.kind = "Ok"
                        THEN Append(allocs, [ptr |-> out.res.val,
                                            amount |-> I32AsU32(stack[Len(stack)].bits)])
                        ELSE allocs
           /\ UNCHANGED <<gas_requested, gas_all_ok>>

ExecFree ==
    \E stack \in {<<>>, <<I32Value(SmallU32(16))>>} :
       /\ Returns(HostCall("_free", stack), execute(Self, "_free", stack, FALSE))
       /\ UNCHANGED <<gas_requested, gas_all_ok, allocs>>

ExecStorageRead ==
    \E stack \in StorageStacks :
    \E ext_fails \in ExtAnswers(stack) :
       /\ Returns(HostCall("_storage_read", stack),
                  execute(Self, "_storage_read", stack, ext_fails))
       /\ UNCHANGED <<gas_requested, gas_all_ok, allocs>>

ExecStorageWrite ==
    \E stack \in StorageStacks :
    \E ext_fails \in ExtAnswers(stack) :
       /\ Returns(HostCall("_storage_write", stack),
                  execute(Self, "_storage_write", stack, ext_fails))
       /\ UNCHANGED <<gas_requested, gas_all_ok, allocs>>

ExecSuicide ==
    \E stack \in OneOperand(AddressPointers) :
    \E ext_fails \in ExtAnswers(stack) :
       /\ Returns(HostCall("_suicide", stack),
                  execute(Self, "_suicide", stack, ext_fails))
       /\ UNCHANGED <<gas_requested, gas_all_ok, allocs>>

ExecDebug ==
    \E stack \in DebugStacks :
       /\ Returns(HostCall("_debug", stack), execute(Self, "_debug", stack, FALSE))
       /\ UNCHANGED <<gas_requested, gas_all_ok, allocs>>

ExecGas ==
    \E stack \in OneOperand(GasOperands) :
       LET out == execute(Self, "gas", stack, FALSE)
           p == pop_as_i32(stack)
       IN  /\ Returns(HostCall("gas", stack), out)
           /\ gas_requested' = IF p.ok THEN WrappingAdd(gas_requested, U32AsU64(p.val))
                               ELSE gas_requested
           /\ gas_all_ok' = IF p.ok THEN gas_all_ok /\ out.res = Ok(NoValue)
                            ELSE gas_all_ok
           /\ UNCHANGED allocs

ExecUnknown ==
    \E name \in UnknownNames, stack \in {<<>>, <<I32Value(SmallU32(1))>>} :
       /\ Returns(HostCall(name, stack), execute(Self, name, stack, FALSE))
       /\ UNCHANGED <<gas_requested, gas_all_ok, allocs>>

Alloc ==
    \E amount \in AllocAmounts :
       LET out == alloc(Self, amount)
       IN  /\ Returns([NoCall("alloc") EXCEPT !.amount = amount], out)
           /\ allocs' = IF out.res.kind = "Ok"
                        THEN Append(allocs, [ptr |-> out.res.val, amount |-> amount])
                        ELSE allocs
           /\ UNCHANGED <<gas_requested, gas_all_ok>>

\* the allocations a write_descriptor call makes: the descriptor, then the
\* args region
DescriptorAllocs(self, call_args) ==
    LET d == alloc(self, SmallU32(DescriptorLen))
        a == alloc(d.self, CallArgs_len(call_args))
    IN  IF d.res.kind # "Ok" THEN <<>>
        ELSE <<[ptr |-> d.res.val, amount |-> SmallU32(DescriptorLen)]>>
             \o (IF a.res.kind # "Ok" THEN <<>>
                 ELSE <<[ptr |-> a.res.val, amount |-> CallArgs_len(call_args)]>>)

WriteDescriptor ==
    \E call_args \in CallArgsSet :
       /\ Returns([NoCall("write_descriptor") EXCEPT !.call_args = call_args],
                  write_descriptor(Self, call_args))
       /\ allocs' = allocs \o DescriptorAllocs(Self, call_args)
       /\ UNCHANGED <<gas_requested, gas_all_ok>>

GasLeft ==
    /\ Returns(NoCall("gas_left"), Outcome(Self, gas_left(Self)))
    /\ UNCHANGED <<gas_requested, gas_all_ok, allocs>>

Next ==
    \/ ExecMalloc
    \/ ExecFree
    \/ ExecStorageRead
    \/ ExecStorageWrite
    \/ ExecSuicide
    \/ ExecDebug
    \/ ExecGas
    \/ ExecUnknown
    \/ Alloc
    \/ WriteDescriptor
    \/ GasLeft

Spec == Init /\ [][Next]_vars

\* the gas meter alone, over longer runs
InitGas == Fresh(MaxGasCalls)

NextGas ==
    \/ ExecGas
    \/ GasLeft

SpecGas == InitGas /\ [][NextGas]_vars

\* the arena allocator and the call marshaller alone, over longer runs
InitAlloc == Fresh(MaxAllocCalls)

NextAlloc ==
    \/ ExecMalloc
    \/ ExecFree
    \/ Alloc
    \/ WriteDescriptor

SpecAlloc == InitAlloc /\ [][NextAlloc]_vars

(***************************************************************************)
(* Properties.                                                              *)
(***************************************************************************)
IsHostCall(call, name) == call.op = "execute" /\ call.name = name
\* the i32 operand on top of the stack of a host call that has one
TopOperand(call) == call.stack[Len(call.stack)].bits
HasOperand(call) == pop_as_i32(call.stack).ok
ZeroU64 == SmallU64(0)

\* C1: from a fresh Runtime with gas limit L, as long as the amounts of the
\* `gas` calls made so far (each the 32-bit operand the call pops) sum to at
\* most L, every one of these calls returned Ok(None) and gas_left() is
\* exactly L minus that sum.
C1_GasLeftIsLimitMinusSum ==
    LessEq(gas_requested, gas_limit) =>
        /\ gas_all_ok
        /\ gas_left(Self) = Ok(Sub(gas_limit, gas_requested))

\* C2: a `gas` call whose amount added to gas_counter exceeds gas_limit
\* fails with the exceeds-limit trap and leaves gas_counter as it was; a
\* `gas` call whose amount fits is accepted and leaves gas_counter at the
\* counter before it plus the amount.
C2_GasChargeAtomic ==
    [][(IsHostCall(last', "gas") /\ HasOperand(last')) =>
          LET amount == U32AsU64(TopOperand(last'))
              exceeds == \/ AddOverflows(gas_counter, amount)
                         \/ Less(gas_limit, WrappingAdd(gas_counter, amount))
          IN  IF exceeds
              THEN last'.res = Err(TrapGasExceeds) /\ gas_counter' = gas_counter
              ELSE /\ last'.res = Ok(NoValue)
                   /\ gas_counter' = WrappingAdd(gas_counter, amount)]_vars

\* C3: gas_counter <= gas_limit in every reachable state, so gas_left never
\* answers InvalidGasState and always answers gas_limit - gas_counter, both
\* when evaluated on the state and when the caller has just called it.
C3_GasCounterWithinLimit ==
    /\ LessEq(gas_counter, gas_limit)
    /\ gas_left(Self) = Ok(Sub(gas_limit, gas_counter))
    /\ last.op = "gas_left" =>
          /\ last.res.kind = "Ok"
          /\ WrappingAdd(last.res.val, gas_counter) = gas_limit

\* C3 witness: gas_left has just been called on a Runtime that has charged
\* gas, and answered a value below the limit.
C3_Witness ==
    /\ last.op = "gas_left"
    /\ Less(ZeroU64, gas_counter)
    /\ last.res.kind = "Ok"
    /\ Less(last.res.val, gas_limit)

\* C4: no `gas` call, whatever its 32-bit operand, lowers gas_counter.
C4_GasCounterMonotonic ==
    [][IsHostCall(last', "gas") => LessEq(gas_counter, gas_counter')]_vars

\* C5: no call lowers dynamic_top, and dynamic_top never falls below the
\* stack_space given to with_params.
C5_DynamicTopMonotonic ==
    [][/\ LessEq(dynamic_top, dynamic_top')
       /\ LessEq(stack_space, dynamic_top')]_vars

\* the first byte after an allocation, as an exact 64-bit number
AllocEnd(r) == WrappingAdd(U32AsU64(r.ptr), U32AsU64(r.amount))
Overlap(r, q) ==
    /\ Less(U32AsU64(r.ptr), AllocEnd(q))
    /\ Less(U32AsU64(q.ptr), AllocEnd(r))

IsAllocation(call) == IsHostCall(call, "_malloc") \/ call.op = "alloc"

\* C6: every `_malloc` and alloc call returns the dynamic_top held before
\* it, an allocation of size n is followed by one whose offset is exactly n
\* higher, and the regions handed out so far are pairwise disjoint.
C6_AllocationsDisjoint ==
    [][/\ (IsAllocation(last') /\ last'.res.kind = "Ok") =>
             last'.res.val = dynamic_top
       /\ \A i \in 1 .. Len(allocs') - 1 :
             U32AsU64(allocs'[i + 1].ptr) = AllocEnd(allocs'[i])
       /\ \A i \in 1 .. Len(allocs') : \A j \in 1 .. Len(allocs') :
             i < j => ~Overlap(allocs'[i], allocs'[j])]_vars

\* the n bytes of memory mem from address at on
Window(mem, at, n) == [i \in 1 .. n |-> mem[at + i - 1]]
\* the little-endian u32 held by the four bytes at address at
ReadU32(mem, at) ==
    U32(mem[at] + 256 * mem[at + 1], mem[at + 2] + 256 * mem[at + 3])
\* the call arguments a callee reads back through the descriptor at d
ReadCallArgs(mem, d) ==
    LET p == ReadU32(mem, d)[1]
        n == ReadU32(mem, d + 4)[1]
    IN  [address |-> Window(mem, p, 20),
         sender |-> Window(mem, p + 20, 20),
         origin |-> Window(mem, p + 40, 20),
         value |-> Window(mem, p + 60, 32),
         data |-> Window(mem, p + 92, n - 92)]

WroteDescriptor == last.op = "write_descriptor" /\ last.res.kind = "Ok"

\* C7: after a successful write_descriptor returning d, the 16 bytes at d
\* are the little-endian args pointer p, the little-endian args length and
\* eight zero bytes, the args region lies in memory, and reading address,
\* sender, origin, value and data back at p, p+20, p+40, p+60 and p+92 gives
\* exactly the call arguments passed in.
C7_DescriptorRoundTrip ==
    WroteDescriptor =>
        LET d == last.res.val
            p == ReadU32(memory, d[1])
            n == ReadU32(memory, d[1] + 4)
        IN  /\ RegionInBounds(d, SmallU32(16))
            /\ Window(memory, d[1] + 8, 8) = [i \in 1 .. 8 |-> 0]
            /\ n[2] = 0
            /\ n[1] >= 92
            /\ RegionInBounds(p, n)
            /\ ReadCallArgs(memory, d[1]) = last.call_args

\* C7 witness: a descriptor written for call arguments with input data.
C7_Witness ==
    /\ WroteDescriptor
    /\ last.call_args.data # <<>>
    /\ ReadCallArgs(memory, last.res.val[1]).data = last.call_args.data

\* the pointer operands of a storage host call: the top of the stack is the
\* value (or destination) pointer, the one under it the key pointer
TopPointer(call) == call.stack[Len(call.stack)].bits
KeyPointer(call) == call.stack[Len(call.stack) - 1].bits
WellFormed(call) ==
    /\ Len(call.stack) >= 2
    /\ call.stack[Len(call.stack)].ty = "i32"
    /\ call.stack[Len(call.stack) - 1].ty = "i32"
\* a pointer the pointer validator accepts for a 32-byte read
ValidH256(ptr) == ~IsNegativeI32(ptr) /\ RegionInBounds(ptr, SmallU32(H256Len))
StorageKeys(e) == {x.key : x \in e.storage}

\* C8: (a) a successful `_storage_write` stores the 32 bytes at its value
\* pointer under the 32 bytes at its key pointer and changes no other key;
\* (b) a `_storage_read` that directly follows it, for the same key, with an
\* in-bounds destination and an answering state interface, returns 0 and
\* leaves exactly the written value at the destination.
C8_StorageRoundTrip ==
    [][/\ (IsHostCall(last', "_storage_write") /\ last'.res.kind = "Ok") =>
             /\ WellFormed(last')
             /\ last'.res.val = SmallU32(0)
             /\ LET K == Window(memory, KeyPointer(last')[1], H256Len)
                    V == Window(memory, TopPointer(last')[1], H256Len)
                IN  /\ Ext_storage_at(ext', K) = V
                    /\ \A k \in (StorageKeys(ext) \cup StorageKeys(ext')) \ {K} :
                          Ext_storage_at(ext', k) = Ext_storage_at(ext, k)
       /\ (/\ IsHostCall(last, "_storage_write") /\ last.res.kind = "Ok"
           /\ IsHostCall(last', "_storage_read") /\ WellFormed(last')
           /\ ValidH256(KeyPointer(last'))
           /\ RegionInBounds(TopPointer(last'), SmallU32(H256Len))
           /\ Window(memory, KeyPointer(last')[1], H256Len)
                 = Window(memory, KeyPointer(last)[1], H256Len)
           /\ last'.res.err # TrapStorageRead) =>
             /\ last'.res = Ok(SmallU32(0))
             /\ Window(memory', TopPointer(last')[1], H256Len)
                   = Window(memory, TopPointer(last)[1], H256Len)
             /\ ext' = ext]_vars

\* C8 witness: a value other than the zero word has been written and read
\* back to a destination away from the key.
C8_Witness ==
    /\ IsHostCall(last, "_storage_read")
    /\ last.res = Ok(SmallU32(0))
    /\ TopPointer(last) # KeyPointer(last)
    /\ \E e \in ext.storage :
          /\ e.val # ZeroH256
          /\ e.val # Window(InitMemory, TopPointer(last)[1], H256Len)
          /\ e.key = Window(memory, KeyPointer(last)[1], H256Len)
          /\ e.val = Window(memory, TopPointer(last)[1], H256Len)

\* C9: a `_suicide` call that succeeds appends its refund address, and only
\* it, to the self-destruct calls seen by the state interface, and once a
\* self-destruct has been made no later call has any effect on the memory
\* or the external state.
C9_SuicideTerminates ==
    [][/\ (IsHostCall(last', "_suicide") /\ last'.res.kind = "Ok") =>
             ext'.suicides =
                 Append(ext.suicides,
                        Window(memory, TopOperand(last')[1], AddressLen))
       /\ Len(ext.suicides) > 0 =>
             /\ memory' = memory
             /\ ext' = ext]_vars

\* C10: execute with a name that is none of the seven host functions
\* returns the unknown trap and changes nothing.
C10_UnknownNameTraps ==
    [][(last'.op = "execute" /\ last'.name \notin KnownNames) =>
          /\ last'.res = Err(TrapUnknown)
          /\ gas_counter' = gas_counter
          /\ gas_limit' = gas_limit
          /\ dynamic_top' = dynamic_top
          /\ memory' = memory
          /\ ext' = ext]_vars

\* C10 witness: an unknown name has been called with an operand on the
\* stack, on a Runtime an earlier call has changed.
C10_Witness ==
    /\ last.op = "execute"
    /\ last.name \in UnknownNames
    /\ last.stack # <<>>
    /\ last.res = Err(TrapUnknown)
    /\ calls = 2
    /\ \/ gas_counter # ZeroU64
       \/ dynamic_top # stack_space
       \/ ext # ExtInit
       \/ memory # InitMemory

(***************************************************************************)
(* Memory accesses of the host operations.                                  *)
(***************************************************************************)
\* impl From<PtrError> for Error
FromPtrError == "AccessViolation"

\* the results that report an access violation
AccessViolations == {Err(TrapAccessViolation), Err(FromPtrError)}

\* the memory accesses a host call with all its operands makes, each as the
\* offset its pointer operand converts to and the length accessed
HostAccesses(call) ==
    CASE IsHostCall(call, "_storage_write") \/ IsHostCall(call, "_storage_read") ->
            {[off |-> I32AsU32(TopPointer(call)), len |-> SmallU32(H256Len)],
             [off |-> I32AsU32(KeyPointer(call)), len |-> SmallU32(H256Len)]}
      [] IsHostCall(call, "_suicide") ->
            {[off |-> I32AsU32(TopOperand(call)), len |-> SmallU32(AddressLen)]}
      [] IsHostCall(call, "_debug") ->
            {[off |-> I32AsU32(KeyPointer(call)), len |-> I32AsU32(TopPointer(call))]}
      [] OTHER -> {}

\* a host call that accesses memory and has found its operands on the stack
AccessingCall(call) ==
    \/ /\ \/ IsHostCall(call, "_storage_write")
          \/ IsHostCall(call, "_storage_read")
          \/ IsHostCall(call, "_debug")
       /\ WellFormed(call)
    \/ IsHostCall(call, "_suicide") /\ HasOperand(call)

\* the memory writes of write_descriptor on a Runtime whose dynamic_top is t
DescriptorAccesses(t, call_args) ==
    LET args_ptr == WrappingAdd(t, SmallU32(DescriptorLen))
        fields == ArgsFields(call_args)
    IN  {[off |-> t, len |-> SmallU32(DescriptorLen)]}
        \cup {[off |-> WrappingAdd(args_ptr, SmallU32(fields[i].off)),
               len |-> SmallU32(Len(fields[i].bytes))] : i \in DOMAIN fields}

AllInBounds(accesses) == \A a \in accesses : RegionInBounds(a.off, a.len)

\* C11: every memory access of a host operation (the 32-byte key and value
\* reads of `_storage_read`/`_storage_write`, the 20-byte read of `_suicide`,
\* the 32-byte destination write of `_storage_read`, the read of `_debug`,
\* the writes of write_descriptor) succeeds when offset + length is at most
\* the memory size, and when it is larger fails with an access violation
\* and leaves every byte of the memory as it was.
C11_MemoryAccessBounds ==
    [][/\ AccessingCall(last') =>
             /\ AllInBounds(HostAccesses(last')) =>
                   last'.res \notin AccessViolations \cup {Err(ErrMemory)}
             /\ (~AllInBounds(HostAccesses(last')) /\ last'.res # Err(TrapStorageRead)) =>
                   /\ last'.res \in AccessViolations
                   /\ memory' = memory
       /\ (last'.op = "write_descriptor" /\ last'.res.kind # "Panic") =>
             LET accesses == DescriptorAccesses(dynamic_top, last'.call_args)
             IN  /\ AllInBounds(accesses) => last'.res.kind = "Ok"
                 /\ ~AllInBounds(accesses) => last'.res \in AccessViolations]_vars

\* the raw pointer operands of a host call that has found its operands
PointerOperands(call) ==
    CASE IsHostCall(call, "_storage_write") \/ IsHostCall(call, "_storage_read") ->
            {TopPointer(call), KeyPointer(call)}
      [] IsHostCall(call, "_suicide") -> {TopOperand(call)}
      [] IsHostCall(call, "_debug") -> {KeyPointer(call)}
      [] OTHER -> {}

\* C12: a host call one of whose pointer operands (value and key of
\* `_storage_write`, destination and key of `_storage_read`, address of
\* `_suicide`, message pointer of `_debug`) is negative as an i32 fails with
\* the access violation of the pointer validator, and the memory and the
\* external state are as before the call.
C12_NegativePointerRefused ==
    [][(/\ AccessingCall(last')
        /\ \E ptr \in PointerOperands(last') : IsNegativeI32(ptr)) =>
          /\ last'.res = Err(TrapAccessViolation)
          /\ memory' = memory
          /\ ext' = ext]_vars

\* the failures a host call can return to the interpreter as a trap
HostTraps ==
    {TrapGasExceeds, TrapStorageUpdate, TrapStorageRead, TrapSuicide,
     TrapAccessViolation, TrapUnknown, TrapUtf8}

HostCallFailed(call) ==
    call.op = "execute" /\ call.res.kind = "Err" /\ call.res.err \in HostTraps

\* C13: once a host call has returned a failure (exceeds-limit, storage
\* error, access violation, unknown trap, decoding error) the Runtime issues
\* no further effect; stated for the call that directly follows the failure:
\* it makes no external-state set or self-destruct, writes no memory, does
\* not advance dynamic_top and charges no gas.
C13_NoEffectAfterFailure ==
    [][HostCallFailed(last) =>
          /\ ext' = ext
          /\ memory' = memory
          /\ dynamic_top' = dynamic_top
          /\ gas_counter' = gas_counter]_vars

\* the failures of a host call over its operands: an operand is missing or
\* has another type, or a pointer is refused or out of bounds
OperandFailures == {ErrStack, ErrValue, TrapAccessViolation, ErrMemory}

OperandFailure(call) ==
    call.op = "execute" /\ call.res.kind = "Err" /\ call.res.err \in OperandFailures

\* C14: a host call dispatched through execute that fails because an operand
\* is missing or mistyped, or a pointer is invalid or out of bounds, leaves
\* gas_counter, dynamic_top and the memory exactly as before the call and
\* has made no set and no self-destruct on the external state.
C14_OperandFailureNoEffect ==
    [][OperandFailure(last') =>
          /\ gas_counter' = gas_counter
          /\ dynamic_top' = dynamic_top
          /\ memory' = memory
          /\ ext' = ext]_vars

\* C14 witness: a `_storage_read` of a key that an earlier call has stored
\* has failed on its destination pointer, after the key was read and the
\* value fetched.
C14_Witness ==
    /\ IsHostCall(last, "_storage_read")
    /\ WellFormed(last)
    /\ last.res = Err(ErrMemory)
    /\ ValidH256(KeyPointer(last))
    /\ Ext_storage_at(ext, Window(memory, KeyPointer(last)[1], H256Len)) # ZeroH256
    /\ memory = InitMemory

\* the failures reported for a failing external state interface
StorageFailures == {TrapStorageUpdate, TrapStorageRead, TrapSuicide}

\* a pointer the pointer validator accepts for a 20-byte read
ValidAddress(ptr) == ~IsNegativeI32(ptr) /\ RegionInBounds(ptr, SmallU32(AddressLen))

\* C15: in every state of the Runtime, a host call whose operands are valid
\* and whose call on the external state interface fails returns a storage
\* failure and changes nothing: `_storage_read` does not write the
\* destination and does not return 0, `_storage_write` does not return 0,
\* `_suicide` returns a failure; and the failure is none of the access
\* violation, the exceeds-limit failure and the unknown trap.
C15_ExtFailurePropagates ==
    /\ \A stack \in StorageStacks :
          LET call == HostCall("_storage_write", stack)
          IN  /\ (/\ WellFormed(call)
                  /\ ValidH256(TopPointer(call))
                  /\ ValidH256(KeyPointer(call))) =>
                    execute(Self, "_storage_write", stack, TRUE)
                       = Outcome(Self, Err(TrapStorageUpdate))
              /\ (WellFormed(call) /\ ValidH256(KeyPointer(call))) =>
                    execute(Self, "_storage_read", stack, TRUE)
                       = Outcome(Self, Err(TrapStorageRead))
    /\ \A stack \in OneOperand(AddressPointers) :
          LET call == HostCall("_suicide", stack)
          IN  (HasOperand(call) /\ ValidAddress(TopOperand(call))) =>
                 execute(Self, "_suicide", stack, TRUE) = Outcome(Self, Err(TrapSuicide))
    /\ StorageFailures \cap {TrapAccessViolation, TrapGasExceeds, TrapUnknown} = {}

\* C15 witness: the state interface has failed a `_storage_read` of a key
\* that an earlier call has stored, and the destination still holds its
\* bytes.
C15_Witness ==
    /\ IsHostCall(last, "_storage_read")
    /\ last.res = Err(TrapStorageRead)
    /\ ext.storage # {}
    /\ Ext_storage_at(ext, Window(memory, KeyPointer(last)[1], H256Len)) # ZeroH256
    /\ memory = InitMemory

\* the operands of a `_debug` call: the length is on top of the stack, the
\* pointer under it
DebugLength(call) == I32AsU32(TopPointer(call))
DebugPointer(call) == I32AsU32(KeyPointer(call))

\* C16: `_debug` takes the top of the stack as the length and the operand
\* under it as the pointer; when that region is in bounds the call returns
\* the decoding error if its bytes are not valid UTF-8 and succeeds without
\* a return value if they are (no bytes, or the two bytes of U+00E9, are
\* valid; a lone continuation byte is not); in both cases gas_counter,
\* dynamic_top, the memory and the external state are unchanged.
C16_DebugLog ==
    [][(/\ IsHostCall(last', "_debug")
        /\ WellFormed(last')
        /\ RegionInBounds(DebugPointer(last'), DebugLength(last'))) =>
          LET bytes == Window(memory, DebugPointer(last')[1], DebugLength(last')[1])
          IN  /\ last'.res = IF from_utf8_ok(bytes) THEN Ok(NoValue) ELSE Err(TrapUtf8)
              /\ bytes \in {<<>>, <<195, 169>>} => last'.res = Ok(NoValue)
              /\ bytes \in {<<195>>, <<169>>} => last'.res = Err(TrapUtf8)
              /\ gas_counter' = gas_counter
              /\ dynamic_top' = dynamic_top
              /\ memory' = memory
              /\ ext' = ext]_vars

\* C16 witness: on a Runtime whose memory an earlier call has written,
\* `_debug` has read a lone continuation byte and returned the decoding
\* error.
C16_Witness ==
    /\ IsHostCall(last, "_debug")
    /\ WellFormed(last)
    /\ DebugLength(last) = SmallU32(1)
    /\ Window(memory, DebugPointer(last)[1], 1) = <<169>>
    /\ last.res = Err(TrapUtf8)
    /\ memory # InitMemory

\* `_free` succeeds without a value and leaves the Runtime as it was
FreeIsNoOp ==
    IsHostCall(last', "_free") =>
       /\ last'.res = Ok(NoValue)
       /\ gas_counter' = gas_counter
       /\ gas_limit' = gas_limit
       /\ dynamic_top' = dynamic_top
       /\ memory' = memory
       /\ ext' = ext

\* C17: `_free` is a no-op for every Runtime state and operand stack (it
\* succeeds, returns no value and leaves gas_counter, gas_limit, dynamic_top,
\* the memory and the external state unchanged), and no allocation is given
\* memory that an earlier allocation was given.
C17_FreeNeverReclaims ==
    [][/\ FreeIsNoOp
       /\ \A i \in 1 .. Len(allocs') : \A j \in 1 .. Len(allocs') :
             i < j => ~Overlap(allocs'[i], allocs'[j])]_vars

\* C18: a write_descriptor that returns an error because one of its memory
\* writes is out of bounds leaves dynamic_top and the memory exactly as
\* before the call.
C18_DescriptorAllOrNothing ==
    [][(/\ last'.op = "write_descriptor"
        /\ last'.res = Err(FromInterpreterError(ErrMemory))) =>
          /\ dynamic_top' = dynamic_top
          /\ memory' = memory]_vars

\* the two regions a successful write_descriptor on a Runtime whose
\* dynamic_top is t hands out: the descriptor, then the args region
DescriptorRegions(t, call_args) ==
    << [ptr |-> t, amount |-> SmallU32(DescriptorLen)],
       [ptr |-> WrappingAdd(t, SmallU32(DescriptorLen)),
        amount |-> SmallU32(92 + Len(call_args.data))] >>

\* the layout a successful write_descriptor leaves: it returns the
\* dynamic_top t held before it, the descriptor holds t + 16 and the args
\* length 92 + data length, and dynamic_top ends behind the args region
DescriptorLayout ==
    (last'.op = "write_descriptor" /\ last'.res.kind = "Ok") =>
       LET regions == DescriptorRegions(dynamic_top, last'.call_args)
       IN  /\ last'.res.val = dynamic_top
           /\ ReadU32(memory', dynamic_top[1]) = regions[2].ptr
           /\ U32AsU64(regions[2].ptr) = AllocEnd(regions[1])
           /\ ReadU32(memory', dynamic_top[1] + 4) = regions[2].amount
           /\ U32AsU64(dynamic_top') = AllocEnd(regions[2])
           /\ allocs' = allocs \o regions
           /\ ~Overlap(regions[1], regions[2])

\* C19: a successful write_descriptor on a Runtime whose dynamic_top is t
\* returns t, places the args region at t + 16 and records that pointer and
\* the args length 92 + data length in the descriptor, and leaves
\* dynamic_top at t + 16 + args length; the descriptor and the args region
\* overlap neither each other nor a region handed out earlier, and an
\* allocation that follows starts at or after the end of the args region.
C19_DescriptorPlacement ==
    [][/\ DescriptorLayout
       /\ (last'.op = "write_descriptor" /\ last'.res.kind = "Ok") =>
             \A i \in 1 .. Len(allocs) : \A k \in 1 .. 2 :
                ~Overlap(allocs[i], DescriptorRegions(dynamic_top, last'.call_args)[k])
       /\ (/\ last.op = "write_descriptor" /\ last.res.kind = "Ok"
           /\ (IsAllocation(last') \/ last'.op = "write_descriptor")
           /\ last'.res.kind = "Ok") =>
             LessEq(dynamic_top, last'.res.val)]_vars

\* C20: no operation changes gas_limit; gas_counter is changed only by a
\* `gas` host call that succeeds; dynamic_top is changed only by `_malloc`,
\* alloc and write_descriptor.
C20_CounterFrames ==
    [][/\ gas_limit' = gas_limit
       /\ gas_counter' # gas_counter =>
             IsHostCall(last', "gas") /\ last'.res = Ok(NoValue)
       /\ dynamic_top' # dynamic_top =>
             \/ IsHostCall(last', "_malloc")
             \/ last'.op \in {"alloc", "write_descriptor"}]_vars

\* C20 witness: after gas has been charged, a `_malloc` of 0xFFFFFFF0 bytes
\* has moved dynamic_top and left the gas charged as it was.
C20_Witness ==
    /\ IsHostCall(last, "_malloc")
    /\ last.res.kind = "Ok"
    /\ TopOperand(last) = NearTop
    /\ dynamic_top # last.res.val
    /\ gas_counter = SmallU64(1)

====
